---- MODULE Spec2Model ----
(***************************************************************************)
(* Model of the document-verification program of src/app.py: extraction of *)
(* a record per document (process_document), the per-field comparators     *)
(* (compare_with_fuzzy_match, compare_phone_numbers, compare_dob) and the  *)
(* verdict (compare_extracted_info).                                       *)
(*                                                                         *)
(* A Python str is a sequence of one-character strings; an Optional[str]   *)
(* is None (the empty tuple) or Some(s) (the one-element tuple <<s>>).     *)
(***************************************************************************)
EXTENDS Integers, Sequences, FiniteSets, TLC

VARIABLES
    pc,             \* where the verification run of main() stands
    id_info,        \* the record extracted from the ID document
    bank_info,      \* the record extracted from the bank statement
    ocr_text,       \* per document, the text perform_ocr_with_nanonets returned
    groq_reply,     \* per document, the kind of reply the language model gave
    groq_calls,     \* the number of calls made to the language model
    raised,         \* whether an exception left process_document
    is_verified,    \* the four results of compare_extracted_info
    matches,
    mismatches,
    match_details,
    upload_name,    \* per document, the name of the uploaded file
    path,           \* per document, main's id_path / bank_path, once bound
    temp_files,     \* the files of the temp directory this run has written
    run_error,      \* the step of the run that raised, if one did
    remove_failed   \* the paths whose os.remove raised in the finally block

vars == <<pc, id_info, bank_info, ocr_text, groq_reply, groq_calls, raised,
          is_verified, matches, mismatches, match_details,
          upload_name, path, temp_files, run_error, remove_failed>>

files == <<upload_name, path, temp_files, run_error, remove_failed>>

----------------------------------------------------------------------------
(* Optional[str]                                                           *)

None == <<>>

Some(s) == <<s>>

\* Python truthiness of an Optional[str]: None and "" are falsy.
Truthy(v) == v # None /\ Len(v[1]) > 0

----------------------------------------------------------------------------
(* Characters and the str methods the comparators use                      *)

DigitChars == {"0", "1", "2", "3", "4", "5", "6", "7", "8", "9"}

LowerChars == {"a", "b", "c"}

UpperChars == {"A", "B", "C"}

WhitespaceChars == {" "}

\* str.isdigit, on the characters of the model
IsDigit(c) == c \in DigitChars

\* one character of str.lower
LowerChar(c) ==
    CASE c = "A" -> "a"
      [] c = "B" -> "b"
      [] c = "C" -> "c"
      [] OTHER -> c

\* str.lower
Lower(s) == [i \in 1..Len(s) |-> LowerChar(s[i])]

RECURSIVE LStrip(_)
LStrip(s) ==
    IF s # <<>> /\ Head(s) \in WhitespaceChars THEN LStrip(Tail(s)) ELSE s

RECURSIVE RStrip(_)
RStrip(s) ==
    IF s # <<>> /\ s[Len(s)] \in WhitespaceChars
    THEN RStrip(SubSeq(s, 1, Len(s) - 1))
    ELSE s

\* str.strip
Strip(s) == RStrip(LStrip(s))

\* str.replace(old, new) for one-character old and new
Replace(s, old, new) == [i \in 1..Len(s) |-> IF s[i] = old THEN new ELSE s[i]]

\* ''.join(filter(str.isdigit, s))
FilterDigits(s) == SelectSeq(s, IsDigit)

\* s[-n:]
LastN(s, n) == IF Len(s) <= n THEN s ELSE SubSeq(s, Len(s) - n + 1, Len(s))

----------------------------------------------------------------------------
(* fuzzywuzzy.fuzz, as called by compare_with_fuzzy_match: ratio and       *)
(* token_sort_ratio over difflib.SequenceMatcher(None, s1, s2). Indices    *)
(* and ranges are Python's: from 0, the upper end excluded, so that the    *)
(* element a[i] of the code is a[i + 1] here.                              *)

SetMax(S) == CHOOSE x \in S : \A y \in S : y <= x

SetMin(S) == CHOOSE x \in S : \A y \in S : x <= y

\* the length of b from which SequenceMatcher (autojunk = True) drops the
\* popular elements
AutojunkLen == 200

\* SequenceMatcher.__chain_b with isjunk = None: the elements of b that are
\* left out of b2j, which are those occurring more than len(b) // 100 + 1
\* times when b has 200 elements or more
popular(b) ==
    IF Len(b) >= AutojunkLen
    THEN LET ntest == Len(b) \div 100 + 1
         IN {c \in {b[j] : j \in 1..Len(b)} :
                Cardinality({j \in 1..Len(b) : b[j] = c}) > ntest}
    ELSE {}

Min(x, y) == IF x <= y THEN x ELSE y

\* the number of equal elements of a[i:ahi] and b[j:bhi] from their starts
\* on: the largest n with a[i + k] = b[j + k] for every k below n
CommonPrefixLen(a, i, ahi, b, j, bhi) ==
    SetMax({n \in 0..Min(ahi - i, bhi - j) :
               \A k \in 0..(n - 1) : a[i + k + 1] = b[j + k + 1]})

\* the number of equal elements of a[alo:i] and b[blo:j] from their ends
\* back: the largest n with a[i - k] = b[j - k] for every k from 1 to n
CommonSuffixLen(a, alo, i, b, blo, j) ==
    SetMax({n \in 0..Min(i - alo, j - blo) :
               \A k \in 1..n : a[i - k + 1] = b[j - k + 1]})

\* the length of the run of equal elements from a[i] and b[j] on that b2j
\* holds, which a popular element ends
ChainLen(a, i, ahi, b, j, bhi, junk) ==
    SetMax({n \in 0..Min(ahi - i, bhi - j) :
               \A k \in 0..(n - 1) : /\ a[i + k + 1] = b[j + k + 1]
                                     /\ b[j + k + 1] \notin junk})

\* the runs of equal elements over b2j within a[alo:ahi] and b[blo:bhi], as
\* <<i, j, k>>: k elements from a[i] and b[j] on
chains(a, b, alo, ahi, blo, bhi, junk) ==
    {<<p[1], p[2], ChainLen(a, p[1], ahi, b, p[2], bhi, junk)>> :
        p \in {x \in (alo..(ahi - 1)) \X (blo..(bhi - 1)) :
                  a[x[1] + 1] = b[x[2] + 1] /\ b[x[2] + 1] \notin junk}}

\* besti, bestj, bestsize before the extension: <<alo, blo, 0>> when there
\* is no run and else, of the longest runs, the one that starts earliest
\* in a and, of those, earliest in b
longest_chain(alo, blo, runs) ==
    IF runs = {} THEN <<alo, blo, 0>>
    ELSE LET longest == {c \in runs : \A d \in runs : d[3] <= c[3]}
             first == {c \in longest : \A d \in longest : c[1] <= d[1]}
         IN CHOOSE c \in first : \A d \in first : c[2] <= d[2]

\* the extension of best to the left and to the right over the equal
\* elements next to it, popular or not
extended(a, b, alo, ahi, blo, bhi, best, left) ==
    <<best[1] - left, best[2] - left,
      best[3] + left + CommonPrefixLen(a, best[1] + best[3], ahi,
                                       b, best[2] + best[3], bhi)>>

\* SequenceMatcher.find_longest_match(alo, ahi, blo, bhi), as <<i, j, k>>:
\* the longest run over b2j, extended
find_longest_match(a, b, alo, ahi, blo, bhi) ==
    LET best == longest_chain(alo, blo,
                              chains(a, b, alo, ahi, blo, bhi, popular(b)))
    IN extended(a, b, alo, ahi, blo, bhi, best,
                CommonSuffixLen(a, alo, best[1], b, blo, best[2]))

\* sum of the sizes of SequenceMatcher.get_matching_blocks over a[alo:ahi]
\* and b[blo:bhi]: the longest match m, then the same to its left and to
\* its right where both sides have elements left
RECURSIVE matching_size(_, _, _, _, _, _)
RECURSIVE block_sizes(_, _, _, _, _, _, _)
block_sizes(a, b, alo, ahi, blo, bhi, m) ==
    IF m[3] = 0 THEN 0
    ELSE m[3] + (IF alo < m[1] /\ blo < m[2]
                 THEN matching_size(a, b, alo, m[1], blo, m[2]) ELSE 0)
              + (IF m[1] + m[3] < ahi /\ m[2] + m[3] < bhi
                 THEN matching_size(a, b, m[1] + m[3], ahi, m[2] + m[3], bhi)
                 ELSE 0)

matching_size(a, b, alo, ahi, blo, bhi) ==
    block_sizes(a, b, alo, ahi, blo, bhi,
                find_longest_match(a, b, alo, ahi, blo, bhi))

\* the number of bits a double keeps after the leading one
MantissaBits == 52

\* (x * 2^e) % t
RECURSIVE ModPow2(_, _, _)
ModPow2(x, e, t) == IF e = 0 THEN x % t ELSE ModPow2((2 * x) % t, e - 1, t)

\* 2^n
RECURSIVE Pow2(_)
Pow2(n) == IF n = 0 THEN 1 ELSE 2 * Pow2(n - 1)

\* the largest k with 2^k <= n, for n >= 1
RECURSIVE Log2Floor(_)
Log2Floor(n) == IF n < 2 THEN 0 ELSE 1 + Log2Floor(n \div 2)

\* the least s >= 0 with num * 2^s >= t
RECURSIVE ShiftUpTo(_, _)
ShiftUpTo(num, t) == IF num >= t THEN 0 ELSE 1 + ShiftUpTo(2 * num, t)

\* The side of the exact half q + 1/2 = 200 * m / t on which the double
\* 100 * (2.0 * m / t) lies: -1 below, 0 on it, 1 above. The quotient
\* 2.0 * m / t is the fraction rounded to the nearest double, which is
\* M * 2^-e for e = s + 52 and an integer M that misses 2 * m * 2^e / t by
\* delta / t; the product with 100 is then exactly the half plus
\* 100 * delta / (t * 2^e), and it is rounded to the nearest double again:
\* to the half itself unless it is more than half a gap between doubles
\* away from it (the half has an even mantissa, so a tie goes to it; below
\* 0.5, a power of two, the gap is half as wide).
half_side(m, t, q) ==
    LET s == ShiftUpTo(2 * m, t)
        R == ModPow2(2 * m, s + MantissaBits, t)
        delta == IF 2 * R < t THEN 0 - R ELSE t - R
        gap == t * Pow2(s + Log2Floor(2 * q + 1))
    IN IF delta > 0 /\ 400 * delta > gap THEN 1
       ELSE IF delta < 0 /\ (IF q = 0 THEN 800 ELSE 400) * (0 - delta) > gap
            THEN 0 - 1
       ELSE 0

\* utils.intr(100 * m.ratio()) for m.ratio() = 2.0 * m / t: Python 3 round
\* of the double. Off an exact half the double is nearer to 200 * m / t
\* than that is to any half (they differ by less than 2^-45, the fraction
\* is at least 1 / (2 * t) away from a half), so the nearest integer is
\* the same; at an exact half the double decides, and round takes a double
\* that is the half to the even neighbour.
intr_percent(m, t) ==
    LET q == (200 * m) \div t
        r == (200 * m) % t
    IN IF 2 * r < t THEN q
       ELSE IF 2 * r > t THEN q + 1
       ELSE LET side == half_side(m, t, q)
            IN IF side > 0 THEN q + 1
               ELSE IF side < 0 THEN q
               ELSE IF q % 2 = 0 THEN q ELSE q + 1

\* fuzz.ratio on two str: check_for_equivalence, check_empty_string, then
\* the SequenceMatcher ratio as a percentage
ratio(s1, s2) ==
    IF s1 = s2 THEN 100
    ELSE IF Len(s1) = 0 \/ Len(s2) = 0 THEN 0
    ELSE intr_percent(matching_size(s1, s2, 0, Len(s1), 0, Len(s2)),
                      Len(s1) + Len(s2))

\* a character the pattern \W of utils.full_process leaves in place
IsWordChar(c) == c \in DigitChars \cup LowerChars \cup UpperChars

\* utils.full_process: non-word characters to spaces, lower case, strip
full_process(s) ==
    Strip(Lower([i \in 1..Len(s) |-> IF IsWordChar(s[i]) THEN s[i] ELSE " "]))

\* str.split(): the maximal runs of non-whitespace characters, in order
RECURSIVE Split(_)
Split(s) ==
    LET t == LStrip(s)
    IN IF t = <<>> THEN <<>>
       ELSE LET n == SetMin({k \in 1..Len(t) :
                                k = Len(t) \/ t[k + 1] \in WhitespaceChars})
            IN <<SubSeq(t, 1, n)>> \o Split(SubSeq(t, n + 1, Len(t)))

\* ord() of a word character
CharCode(c) ==
    CASE c = "0" -> 48 [] c = "1" -> 49 [] c = "2" -> 50 [] c = "3" -> 51
      [] c = "4" -> 52 [] c = "5" -> 53 [] c = "6" -> 54 [] c = "7" -> 55
      [] c = "8" -> 56 [] c = "9" -> 57
      [] c = "A" -> 65 [] c = "B" -> 66 [] c = "C" -> 67
      [] c = "a" -> 97 [] c = "b" -> 98 [] c = "c" -> 99

\* str comparison s < t
RECURSIVE StrLess(_, _)
StrLess(s, t) ==
    IF t = <<>> THEN FALSE
    ELSE IF s = <<>> THEN TRUE
    ELSE IF Head(s) = Head(t) THEN StrLess(Tail(s), Tail(t))
    ELSE CharCode(Head(s)) < CharCode(Head(t))

\* insertion of a token into a sorted list, after the tokens not above it
RECURSIVE InsertSorted(_, _)
InsertSorted(tok, toks) ==
    IF toks = <<>> THEN <<tok>>
    ELSE IF StrLess(tok, Head(toks)) THEN <<tok>> \o toks
    ELSE <<Head(toks)>> \o InsertSorted(tok, Tail(toks))

\* sorted(tokens)
RECURSIVE Sorted(_)
Sorted(toks) ==
    IF toks = <<>> THEN <<>>
    ELSE InsertSorted(toks[Len(toks)], Sorted(SubSeq(toks, 1, Len(toks) - 1)))

\* " ".join(tokens)
RECURSIVE JoinSpace(_)
JoinSpace(toks) ==
    IF toks = <<>> THEN <<>>
    ELSE IF Len(toks) = 1 THEN toks[1]
    ELSE toks[1] \o <<" ">> \o JoinSpace(Tail(toks))

\* fuzz._process_and_sort
process_and_sort(s) == Strip(JoinSpace(Sorted(Split(full_process(s)))))

\* fuzz.token_sort_ratio on two str
token_sort_ratio(s1, s2) == ratio(process_and_sort(s1), process_and_sort(s2))

Max(x, y) == IF x >= y THEN x ELSE y

----------------------------------------------------------------------------
(* The comparators of src/app.py                                           *)

\* the default of the threshold parameter
DefaultThreshold == 80

\* the number of trailing digits a long phone number is compared on
PhoneDigits == 10

\* lower().strip() of compare_with_fuzzy_match
CleanText(s) == Strip(Lower(s))

\* compare_with_fuzzy_match with ">" for ">="
compare_with_fuzzy_match_Above(str1, str2, threshold) ==
    IF ~Truthy(str1) \/ ~Truthy(str2) THEN FALSE
    ELSE LET s1 == CleanText(str1[1])
             s2 == CleanText(str2[1])
             similarity == Max(ratio(s1, s2), token_sort_ratio(s1, s2))
         IN similarity > threshold

compare_with_fuzzy_match(str1, str2, threshold) ==
    IF ~Truthy(str1) \/ ~Truthy(str2) THEN FALSE
    ELSE LET s1 == CleanText(str1[1])
             s2 == CleanText(str2[1])
             similarity == Max(ratio(s1, s2), token_sort_ratio(s1, s2))
         IN similarity >= threshold

\* PhoneFinal keeping the first ten digits, [:10] for [-10:]
PhoneFinal_FirstDigits(clean) ==
    IF Len(clean) >= PhoneDigits THEN SubSeq(clean, 1, PhoneDigits) ELSE clean

\* phoneN_clean[-10:] if len(phoneN_clean) >= 10 else phoneN_clean
PhoneFinal(clean) ==
    IF Len(clean) >= PhoneDigits THEN LastN(clean, PhoneDigits) ELSE clean

compare_phone_numbers(phone1, phone2) ==
    IF ~Truthy(phone1) \/ ~Truthy(phone2) THEN FALSE
    ELSE LET phone1_clean == FilterDigits(phone1[1])
             phone2_clean == FilterDigits(phone2[1])
         IN IF phone1_clean = <<>> \/ phone2_clean = <<>> THEN FALSE
            ELSE PhoneFinal(phone1_clean) = PhoneFinal(phone2_clean)

\* CleanDob without the second replace
CleanDob_SlashOnly(s) == Replace(Strip(s), "/", "-")

\* dob.strip().replace('/', '-').replace('.', '-')
CleanDob(s) == Replace(Replace(Strip(s), "/", "-"), ".", "-")

compare_dob(dob1, dob2) ==
    IF ~Truthy(dob1) \/ ~Truthy(dob2) THEN FALSE
    ELSE CleanDob(dob1[1]) = CleanDob(dob2[1])

----------------------------------------------------------------------------
(* compare_extracted_info                                                  *)

\* the fields, in the order compare_extracted_info compares them
Fields == <<"name", "phone", "dob", "address">>

FieldSet == {"name", "phone", "dob", "address"}

\* len(matches) >= 2
MinMatches == 2

MatchText ==
    [name |-> "Matched with high confidence",
     phone |-> "Phone numbers match",
     dob |-> "Dates of birth match",
     address |-> "Addresses match with high similarity"]

MismatchText ==
    [name |-> "Names differ significantly",
     phone |-> "Phone numbers differ",
     dob |-> "Dates of birth differ",
     address |-> "Addresses differ significantly"]

\* x in list
Contains(list, x) == \E i \in 1..Len(list) : list[i] = x

\* FieldOutcome with "or" for "and" in the guard
FieldOutcome_EitherSide(a, b, cmp) ==
    IF Truthy(a) \/ Truthy(b)
    THEN (IF cmp THEN "match" ELSE "mismatch")
    ELSE "skip"

\* One "if id_info[f] and bank_info[f]: ... else: skip" block: the outcome
\* of the field whose comparator said cmp.
FieldOutcome(a, b, cmp) ==
    IF Truthy(a) /\ Truthy(b)
    THEN (IF cmp THEN "match" ELSE "mismatch")
    ELSE "skip"

\* verdict with ">" for ">="
verdict_MoreThan(ms) == Len(ms) > MinMatches

\* is_verified = len(matches) >= 2
verdict(ms) == Len(ms) >= MinMatches

\* The returned tuple (is_verified, matches, mismatches, match_details).
compare_extracted_info(id, bank) ==
    LET outcome ==
            [name |-> FieldOutcome(id.name, bank.name,
                         compare_with_fuzzy_match(id.name, bank.name, DefaultThreshold)),
             phone |-> FieldOutcome(id.phone, bank.phone,
                         compare_phone_numbers(id.phone, bank.phone)),
             dob |-> FieldOutcome(id.dob, bank.dob,
                         compare_dob(id.dob, bank.dob)),
             address |-> FieldOutcome(id.address, bank.address,
                         compare_with_fuzzy_match(id.address, bank.address, DefaultThreshold))]
        IsMatch(f) == outcome[f] = "match"
        IsMismatch(f) == outcome[f] = "mismatch"
        ms == SelectSeq(Fields, IsMatch)
    IN [is_verified |-> verdict(ms),
        matches |-> ms,
        mismatches |-> SelectSeq(Fields, IsMismatch),
        match_details |->
            [f \in {g \in FieldSet : outcome[g] # "skip"} |->
                IF outcome[f] = "match" THEN MatchText[f] ELSE MismatchText[f]]]

----------------------------------------------------------------------------
(* Extraction: perform_ocr_with_nanonets, extract_entities_using_groq,     *)
(* process_document.  A call returns [exc |-> NoExc, value |-> v] or       *)
(* raises: [exc |-> the exception's class].                                *)

NoExc == "none"

Return(v) == [exc |-> NoExc, value |-> v]

Raise(e) == [exc |-> e, value |-> None]

\* {'name': None, 'phone': None, 'dob': None, 'address': None}
AllNone == [name |-> None, phone |-> None, dob |-> None, address |-> None]

\* What the OCR service does with one request: the request raises, or it
\* answers with a status other than 200, or with status 200 and a JSON body of
\* one of the shapes the code distinguishes (malformed: navigating it
\* raises), holding text or not, with or without a 'raw' member.
OcrResponses ==
    [raises : {TRUE}, status : {200}, shape : {"no_result"}, text : {""}, raw : {FALSE}]
    \cup [raises : {FALSE}, status : {500}, shape : {"no_result"}, text : {""}, raw : {FALSE}]
    \cup [raises : {FALSE}, status : {200},
          shape : {"ocr_text", "pages", "fields", "no_result", "malformed"},
          text : {"", "text"}, raw : BOOLEAN]

perform_ocr_with_nanonets(ocr) ==
    IF ocr.raises THEN ""
    ELSE IF ocr.status # 200 THEN ""
    ELSE IF ocr.shape = "malformed" THEN ""
    ELSE LET extracted_text == IF ocr.shape = "no_result" THEN "" ELSE ocr.text
         IN IF extracted_text = "" /\ ocr.raw THEN "raw" ELSE extracted_text

\* groq_client.chat.completions.create: raises, or returns the reply
groq_create(reply) ==
    IF reply.kind = "api_error" THEN Raise("APIError") ELSE Return(reply)

\* json.loads(content) and the four .get calls on its result
parse_reply(reply) ==
    IF reply.kind = "not_json" THEN Raise("JSONDecodeError")
    ELSE IF reply.kind = "json_non_object" THEN Raise("AttributeError")
    ELSE Return([name |-> reply.obj.name, phone |-> reply.obj.phone,
                 dob |-> reply.obj.dob, address |-> reply.obj.address])

extract_entities_using_groq(text, reply) ==
    LET response == groq_create(reply)
    IN IF response.exc # NoExc THEN Return(AllNone)
       ELSE LET parsed == parse_reply(response.value)
            IN IF parsed.exc = "JSONDecodeError" THEN Return(AllNone)
               ELSE IF parsed.exc # NoExc THEN Return(AllNone)
               ELSE parsed

\* whether process_document reaches the extract_entities_using_groq call
calls_groq(text) == text # ""

\* process_document without the "if not text" return
process_document_NoTextCheck(ocr, reply) ==
    LET text == perform_ocr_with_nanonets(ocr)
        r == extract_entities_using_groq(text, reply)
    IN IF r.exc # NoExc THEN Return(AllNone) ELSE r

process_document(ocr, reply) ==
    LET text == perform_ocr_with_nanonets(ocr)
    IN IF ~calls_groq(text) THEN Return(AllNone)
       ELSE LET r == extract_entities_using_groq(text, reply)
            IN IF r.exc # NoExc THEN Return(AllNone) ELSE r

----------------------------------------------------------------------------
(* Inputs                                                                  *)

\* all str over the characters A of length at most n
RECURSIVE StrsUpTo(_, _)
StrsUpTo(A, n) ==
    IF n = 0 THEN {<<>>}
    ELSE LET P == StrsUpTo(A, n - 1) IN P \cup {Append(s, c) : s \in P, c \in A}

Opt(S) == {None} \cup {Some(s) : s \in S}

\* the field values a language-model reply holds in a verification run
NameSamples == Opt({<<"a", " ", "b">>, <<"B", " ", "a">>})

PhoneSamples == Opt({<<"1", "2">>, <<"2">>})

DobSamples == Opt({<<"1", "/", "2">>, <<"1", "-", "2">>})

AddressSamples == Opt({<<>>, <<"a">>, <<"b">>})

\* The replies of the language model: the call fails, the content is not
\* JSON, it is JSON but no object, or it is an object whose four members
\* are strings or null (a missing member reads as null).
GroqReplies ==
    [kind : {"api_error", "not_json", "json_non_object"}, obj : {AllNone}]
    \cup [kind : {"json_object"},
          obj : [name : NameSamples, phone : PhoneSamples,
                 dob : DobSamples, address : AddressSamples]]

Docs == {"id", "bank"}

\* a local of main that no assignment has bound: 'id_path' not in locals()
Unbound == "unbound"

\* os.path.join("temp", uploaded_file.name)
TempPath(name) == "temp/" \o name

\* Both uploads, named idn and bankn, have been saved by save_uploaded_file.
BothSaved(idn, bankn) ==
    /\ upload_name = [id |-> idn, bank |-> bankn]
    /\ path = [id |-> TempPath(idn), bank |-> TempPath(bankn)]
    /\ temp_files = {TempPath(idn), TempPath(bankn)}
    /\ run_error = "none"
    /\ remove_failed = {}

----------------------------------------------------------------------------
(* The verification run of main() from the point where both uploads are    *)
(* saved: both documents are processed, then the two records are compared. *)

NoResult ==
    /\ is_verified = FALSE
    /\ matches = <<>>
    /\ mismatches = <<>>
    /\ match_details = <<>>

Init ==
    /\ pc = "start"
    /\ id_info = AllNone
    /\ bank_info = AllNone
    /\ ocr_text = [d \in Docs |-> "not_run"]
    /\ groq_reply = [d \in Docs |-> "not_called"]
    /\ groq_calls = 0
    /\ raised = FALSE
    /\ NoResult
    /\ BothSaved("id.pdf", "bank.pdf")

\* info = process_document(path, doc) with the services answering ocr, reply
ProcessDocument(doc, ocr, reply) ==
    LET text == perform_ocr_with_nanonets(ocr)
        r == process_document(ocr, reply)
    IN /\ ocr_text' = [ocr_text EXCEPT ![doc] = text]
       /\ groq_reply' = [groq_reply EXCEPT
                           ![doc] = IF calls_groq(text) THEN reply.kind ELSE "not_called"]
       /\ groq_calls' = groq_calls + (IF calls_groq(text) THEN 1 ELSE 0)
       /\ IF r.exc # NoExc
          THEN /\ raised' = TRUE
               /\ pc' = "raised"
               /\ UNCHANGED <<id_info, bank_info>>
          ELSE /\ raised' = raised
               /\ pc' = (IF doc = "id" THEN "id_done" ELSE "extracted")
               /\ IF doc = "id"
                  THEN id_info' = r.value /\ UNCHANGED bank_info
                  ELSE bank_info' = r.value /\ UNCHANGED id_info
       /\ UNCHANGED <<is_verified, matches, mismatches, match_details>>
       /\ UNCHANGED files

ProcessId ==
    /\ pc = "start"
    /\ \E ocr \in OcrResponses, reply \in GroqReplies : ProcessDocument("id", ocr, reply)

ProcessBank ==
    /\ pc = "id_done"
    /\ \E ocr \in OcrResponses, reply \in GroqReplies : ProcessDocument("bank", ocr, reply)

\* is_verified, matches, mismatches, match_details =
\*     compare_extracted_info(id_info, bank_info)
Compare ==
    /\ pc = "extracted"
    /\ LET res == compare_extracted_info(id_info, bank_info)
       IN /\ is_verified' = res.is_verified
          /\ matches' = res.matches
          /\ mismatches' = res.mismatches
          /\ match_details' = res.match_details
    /\ pc' = "compared"
    /\ UNCHANGED <<id_info, bank_info, ocr_text, groq_reply, groq_calls, raised>>
    /\ UNCHANGED files

Next == ProcessId \/ ProcessBank \/ Compare

Spec == Init /\ [][Next]_vars

----------------------------------------------------------------------------
(* The whole verification run of main(): the try block from the first      *)
(* save_uploaded_file on, and the finally block.                           *)

\* the names the two uploads may have
UploadNames == {"a.pdf", "b.pdf"}

\* What saving a file meets: open() fails and creates nothing; open()
\* succeeds and the write raises, leaving the created file; or all succeeds.
SaveOutcomes == {"saved", "open_fails", "write_fails"}

\* save_uploaded_file: the returned path or the exception, and the files of
\* the temp directory written so far
save_uploaded_file(written, name, outcome) ==
    LET file_path == TempPath(name)
    IN IF outcome = "open_fails"
       THEN [exc |-> "OSError", value |-> Unbound, written |-> written]
       ELSE IF outcome = "write_fails"
       THEN [exc |-> "OSError", value |-> Unbound,
             written |-> written \cup {file_path}]
       ELSE [exc |-> NoExc, value |-> file_path,
             written |-> written \cup {file_path}]

\* What os.remove of a file that is there meets: the file is removed, or
\* the removal is refused (for instance PermissionError) and the file stays.
RemoveOutcomes == {"removed", "refused"}

\* if p in locals(): try: os.remove(p) except Exception: print(...) -- the
\* files left and the paths whose removal raised so far. Removing a file
\* that is gone raises FileNotFoundError; every exception is caught.
remove_if_bound(left, p, outcome) ==
    IF p = Unbound THEN left
    ELSE IF p \notin left.written
    THEN [written |-> left.written, failed |-> left.failed \cup {p}]
    ELSE IF outcome = "refused"
    THEN [written |-> left.written, failed |-> left.failed \cup {p}]
    ELSE [written |-> left.written \ {p}, failed |-> left.failed]

\* the finally block of main: id_path, then bank_path, each if bound
cleanup(written, paths, id_outcome, bank_outcome) ==
    remove_if_bound(
        remove_if_bound([written |-> written, failed |-> {}],
                        paths["id"], id_outcome),
        paths["bank"], bank_outcome)

\* the replies of the language model in a whole run
RunReplies ==
    [kind : {"api_error", "not_json", "json_non_object"}, obj : {AllNone}]
    \cup [kind : {"json_object"},
          obj : [name : NameSamples, phone : PhoneSamples,
                 dob : {None}, address : {None}]]

InitRun ==
    /\ pc = "begin"
    /\ id_info = AllNone
    /\ bank_info = AllNone
    /\ ocr_text = [d \in Docs |-> "not_run"]
    /\ groq_reply = [d \in Docs |-> "not_called"]
    /\ groq_calls = 0
    /\ raised = FALSE
    /\ NoResult
    /\ upload_name \in [Docs -> UploadNames]
    /\ path = [d \in Docs |-> Unbound]
    /\ temp_files = {}
    /\ run_error = "none"
    /\ remove_failed = {}

\* id_path = save_uploaded_file(id_file), bank_path = save_uploaded_file(bank_file)
SaveFile(doc, outcome) ==
    LET r == save_uploaded_file(temp_files, upload_name[doc], outcome)
    IN /\ temp_files' = r.written
       /\ IF r.exc # NoExc
          THEN /\ run_error' = "save_" \o doc
               /\ pc' = "finally"
               /\ UNCHANGED path
          ELSE /\ path' = [path EXCEPT ![doc] = r.value]
               /\ pc' = (IF doc = "id" THEN "id_saved" ELSE "start")
               /\ UNCHANGED run_error
       /\ UNCHANGED <<id_info, bank_info, ocr_text, groq_reply, groq_calls, raised,
                      is_verified, matches, mismatches, match_details, upload_name,
                      remove_failed>>

SaveId ==
    /\ pc = "begin"
    /\ \E outcome \in SaveOutcomes : SaveFile("id", outcome)

SaveBank ==
    /\ pc = "id_saved"
    /\ \E outcome \in SaveOutcomes : SaveFile("bank", outcome)

RunProcessId ==
    /\ pc = "start"
    /\ \E ocr \in OcrResponses, reply \in RunReplies : ProcessDocument("id", ocr, reply)

RunProcessBank ==
    /\ pc = "id_done"
    /\ \E ocr \in OcrResponses, reply \in RunReplies : ProcessDocument("bank", ocr, reply)

\* a streamlit call that displays the records (before the comparison) or the
\* results (after it) raises
RenderRaises ==
    /\ pc \in {"extracted", "compared"}
    /\ run_error' = "render"
    /\ pc' = "finally"
    /\ UNCHANGED <<id_info, bank_info, ocr_text, groq_reply, groq_calls, raised,
                   is_verified, matches, mismatches, match_details,
                   upload_name, path, temp_files, remove_failed>>

\* the results are displayed and the try block ends
RenderResults ==
    /\ pc = "compared"
    /\ pc' = "finally"
    /\ UNCHANGED <<id_info, bank_info, ocr_text, groq_reply, groq_calls, raised,
                   is_verified, matches, mismatches, match_details,
                   upload_name, path, temp_files, run_error, remove_failed>>

\* finally: remove id_path and bank_path, those that are bound
Cleanup ==
    /\ pc \in {"finally", "raised"}
    /\ \E id_outcome \in RemoveOutcomes, bank_outcome \in RemoveOutcomes :
          LET left == cleanup(temp_files, path, id_outcome, bank_outcome)
          IN /\ temp_files' = left.written
             /\ remove_failed' = left.failed
    /\ pc' = "done"
    /\ UNCHANGED <<id_info, bank_info, ocr_text, groq_reply, groq_calls, raised,
                   is_verified, matches, mismatches, match_details,
                   upload_name, path, run_error>>

NextRun ==
    \/ SaveId
    \/ SaveBank
    \/ RunProcessId
    \/ RunProcessBank
    \/ Compare
    \/ RenderRaises
    \/ RenderResults
    \/ Cleanup

SpecRun == InitRun /\ [][NextRun]_vars

----------------------------------------------------------------------------
(* The comparison alone, on records drawn from bounded sets: the state     *)
(* after both documents were extracted from a well-formed reply.           *)

Extracted(id, bank) ==
    /\ pc = "extracted"
    /\ id_info = id
    /\ bank_info = bank
    /\ ocr_text = [d \in Docs |-> "text"]
    /\ groq_reply = [d \in Docs |-> "json_object"]
    /\ groq_calls = 2
    /\ raised = FALSE
    /\ NoResult
    /\ BothSaved("id.pdf", "bank.pdf")

\* the record whose field f is v and whose other fields are None
OnlyField(f, v) == [AllNone EXCEPT ![f] = v]

\* Phone numbers: every str of at most MaxPhoneLen characters, each alone and
\* followed by nine digits, and the two numbers of the specification.
MaxPhoneLen == 2

PhoneChars == {"1", "9", "+"}

NineDigits == <<"8", "8", "4", "4", "2", "4", "1", "1", "4">>

PhoneIntl ==
    <<"+", "9", "1", " ", "9", "8", "8", "4", "4", " ", "2", "4", "1", "1", "4">>

PhoneLocal == <<"9", "8", "8", "4", "4", "2", "4", "1", "1", "4">>

PhoneInputs ==
    LET short == StrsUpTo(PhoneChars, MaxPhoneLen)
    IN Opt(short \cup {s \o NineDigits : s \in short} \cup {PhoneIntl, PhoneLocal})

InitPhone ==
    \E p1 \in PhoneInputs, p2 \in PhoneInputs :
        Extracted(OnlyField("phone", p1), OnlyField("phone", p2))

SpecPhone == InitPhone /\ [][Compare]_vars

\* Dates of birth: every str of at most MaxDobLen characters, and the four
\* dates of the specification.
MaxDobLen == 2

DobChars == {"1", "/", ".", "-", " "}

DobSlash == <<"1", "9", "9", "0", "/", "0", "1", "/", "0", "5">>

DobDot == <<"1", "9", "9", "0", ".", "0", "1", ".", "0", "5">>

DobDash == <<"1", "9", "9", "0", "-", "0", "1", "-", "0", "5">>

DobUnpadded == <<"1", "9", "9", "0", "-", "1", "-", "5">>

DobInputs ==
    Opt(StrsUpTo(DobChars, MaxDobLen) \cup {DobSlash, DobDot, DobDash, DobUnpadded})

InitDob ==
    \E d1 \in DobInputs, d2 \in DobInputs :
        Extracted(OnlyField("dob", d1), OnlyField("dob", d2))

SpecDob == InitDob /\ [][Compare]_vars

\* Free text: every str of at most MaxTextLen characters, a str with a
\* comma, and two long ones whose similarity is 79.
MaxTextLen == 3

TextChars == {"a", "B", " "}

TextComma == <<"B", ",", "a">>

TextShort == <<"a", "a", "a", "a", "a", "a", "a", "a", "a", "a", "a">>

TextLong == TextShort \o <<"b", "b", "b", "b", "b", "b">>

\* two values of 40 characters with 23 in common: 2.0 * 23 / 80 is a double
\* that, times 100, lies just under 57.5
TextHalf == [i \in 1..40 |-> IF i <= 23 THEN "a" ELSE "b"]

TextHalfOther == [i \in 1..40 |-> IF i <= 23 THEN "a" ELSE "c"]

\* two values of 200 characters, "aaaaaaaaab" and "aaaaaaaaac" twenty times:
\* long enough for SequenceMatcher to treat the frequent characters of the
\* second as popular
TextRepeated == [i \in 1..200 |-> IF i % 10 = 0 THEN "b" ELSE "a"]

TextRepeatedOther == [i \in 1..200 |-> IF i % 10 = 0 THEN "c" ELSE "a"]

TextInputs ==
    Opt(StrsUpTo(TextChars, MaxTextLen) \cup {TextComma, TextShort, TextLong})

\* the long values, each compared with itself and with its counterpart
LongTextPairs ==
    LET half == {Some(TextHalf), Some(TextHalfOther)}
        repeated == {Some(TextRepeated), Some(TextRepeatedOther)}
    IN (half \X half) \cup (repeated \X repeated)

InitFuzzy ==
    \E f \in {"name", "address"} :
        \/ \E s1 \in TextInputs, s2 \in TextInputs :
              Extracted(OnlyField(f, s1), OnlyField(f, s2))
        \/ \E p \in LongTextPairs :
              Extracted(OnlyField(f, p[1]), OnlyField(f, p[2]))

SpecFuzzy == InitFuzzy /\ [][Compare]_vars

\* Blank values: each field of each record is None, a blank str or a value.
Blank == <<" ">>

BlankRecords ==
    [name : Opt({Blank, <<"a">>}), phone : Opt({Blank, <<"1">>}),
     dob : Opt({Blank, <<"1">>}), address : Opt({Blank, <<"a">>})]

InitBlank == \E id \in BlankRecords, bank \in BlankRecords : Extracted(id, bank)

SpecBlank == InitBlank /\ [][Compare]_vars

\* Records that also carry an email and a company member.
PolicyRecords ==
    [name : Opt({<<"a">>, <<"b">>}), phone : Opt({<<"1">>, <<"2">>}),
     dob : Opt({<<"1">>}), address : {None},
     email : Opt({<<"a">>, <<"b">>}), company : Opt({<<"a">>, <<"b">>})]

InitPolicy == \E id \in PolicyRecords, bank \in PolicyRecords : Extracted(id, bank)

SpecPolicy == InitPolicy /\ [][Compare]_vars

----------------------------------------------------------------------------
(* Properties                                                              *)

Compared == pc = "compared"

\* a record has a value for a field: the member is neither null nor empty
HasValue(v) == v # None /\ v # Some(<<>>)

BothPresent(f) == HasValue(id_info[f]) /\ HasValue(bank_info[f])

\* C1: a field is in matches or in mismatches only if both records have a
\* value for it; a field with an absent (null or empty) side is in neither
\* list, has no match_details entry, and the verdict counts only matched
\* fields that both records have.
C1_AbsentSideIsSkipped ==
    Compared =>
        /\ \A f \in FieldSet :
            /\ (Contains(matches, f) \/ Contains(mismatches, f)) => BothPresent(f)
            /\ ~BothPresent(f) =>
                /\ ~Contains(matches, f)
                /\ ~Contains(mismatches, f)
                /\ f \notin DOMAIN match_details
        /\ is_verified <=>
            Cardinality({f \in FieldSet : BothPresent(f) /\ Contains(matches, f)}) >= 2

\* C1 witness: after the comparison, the name is null on one side only, the
\* address is empty on one side only, and the other two fields were compared.
C1_Witness ==
    /\ Compared
    /\ id_info.name = None /\ HasValue(bank_info.name)
    /\ HasValue(id_info.address) /\ bank_info.address = Some(<<>>)
    /\ matches = <<"phone", "dob">>
    /\ is_verified

\* C2: the verdict is verified exactly when at least two fields matched,
\* whatever was mismatched or skipped: matched {name, phone} with mismatched
\* {address} is verified, matched {name} with mismatched {phone, address} is
\* not.
C2_VerifiedIffTwoMatched ==
    Compared =>
        /\ is_verified <=> Cardinality({f \in FieldSet : Contains(matches, f)}) >= 2
        /\ (matches = <<"name", "phone">> /\ mismatches = <<"address">>) => is_verified
        /\ (matches = <<"name">> /\ mismatches = <<"phone", "address">>) => ~is_verified

\* C2 witness: matched {name, phone}, mismatched {address}, verified.
C2_Witness ==
    /\ Compared
    /\ matches = <<"name", "phone">>
    /\ mismatches = <<"address">>
    /\ is_verified

\* the second case of C2: matched {name}, mismatched {phone, address}
C2_OneMatchTwoMismatches ==
    /\ Compared
    /\ matches = <<"name">>
    /\ mismatches = <<"phone", "address">>
    /\ ~is_verified

Processed(d) ==
    IF d = "id" THEN pc \in {"id_done", "extracted", "compared"}
    ELSE pc \in {"extracted", "compared"}

InfoOf(d) == IF d = "id" THEN id_info ELSE bank_info

\* C6: process_document never raises; a document whose OCR gave no text, or
\* whose language-model call failed, or whose reply was not JSON, has the
\* record with all four fields None; and the language model is called for
\* exactly the documents whose OCR gave text.
C6_ExtractionFailureGivesAllNone ==
    /\ ~raised
    /\ pc # "raised"
    /\ \A d \in Docs :
        Processed(d) =>
            /\ (ocr_text[d] = "" \/ groq_reply[d] \in {"api_error", "not_json"})
                   => InfoOf(d) = AllNone
            /\ ocr_text[d] = "" => groq_reply[d] = "not_called"
    /\ groq_calls = Cardinality({d \in Docs : Processed(d) /\ ocr_text[d] # ""})

\* C6 witness: the ID document's OCR gave no text and the bank statement's
\* reply was not JSON; one call was made and both records are all None.
C6_Witness ==
    /\ pc = "extracted"
    /\ ocr_text["id"] = ""
    /\ groq_reply["id"] = "not_called"
    /\ ocr_text["bank"] = "text"
    /\ groq_reply["bank"] = "not_json"
    /\ groq_calls = 1
    /\ id_info = AllNone
    /\ bank_info = AllNone

\* the canonical form of a phone: its digit characters, the last ten of them
\* when there are ten or more
PhoneCanonical(s) ==
    LET digits == SelectSeq(s, LAMBDA c : c \in DigitChars)
    IN IF Len(digits) >= 10 THEN SubSeq(digits, Len(digits) - 9, Len(digits))
       ELSE digits

BothCompared(f) == Truthy(id_info[f]) /\ Truthy(bank_info[f])

\* C3 as stated: two phones match exactly when their canonical forms are
\* equal.
C3_MatchIffCanonicalEqual ==
    (Compared /\ BothCompared("phone")) =>
        (Contains(matches, "phone")
            <=> PhoneCanonical(id_info.phone[1]) = PhoneCanonical(bank_info.phone[1]))

\* C3 as amended: two phones match exactly when their canonical forms are
\* equal and not empty, and are mismatched otherwise; the comparison is
\* symmetric; "+91 98844 24114" matches "9884424114".
C3_MatchIffCanonicalEqualNonEmpty ==
    /\ (id_info.phone # None /\ bank_info.phone # None) =>
        LET c1 == PhoneCanonical(id_info.phone[1])
            c2 == PhoneCanonical(bank_info.phone[1])
        IN /\ compare_phone_numbers(id_info.phone, bank_info.phone)
                  <=> (c1 = c2 /\ c1 # <<>>)
           /\ compare_phone_numbers(id_info.phone, bank_info.phone)
                  = compare_phone_numbers(bank_info.phone, id_info.phone)
           /\ (Compared /\ BothCompared("phone")) =>
                /\ Contains(matches, "phone") <=> (c1 = c2 /\ c1 # <<>>)
                /\ Contains(mismatches, "phone") <=> ~(c1 = c2 /\ c1 # <<>>)
    /\ compare_phone_numbers(Some(PhoneIntl), Some(PhoneLocal))

\* C3 witness: "+91 98844 24114" against "9884424114", compared and matched.
C3_Witness ==
    /\ Compared
    /\ id_info.phone = Some(PhoneIntl)
    /\ bank_info.phone = Some(PhoneLocal)
    /\ matches = <<"phone">>

\* the canonical form of a date of birth: trimmed, every '/' and '.' a '-'
DobCanonical(s) ==
    LET trimmed == Strip(s)
    IN [i \in 1..Len(trimmed) |->
            IF trimmed[i] \in {"/", "."} THEN "-" ELSE trimmed[i]]

\* C4: two dates of birth match exactly when they are equal after trimming
\* and replacing every '/' and '.' by '-', and are mismatched otherwise; so
\* "1990/01/05", "1990.01.05" and "1990-01-05" match pairwise and "1990-1-5"
\* does not match "1990-01-05".
C4_MatchIffEqualAfterSeparators ==
    /\ (Compared /\ BothCompared("dob")) =>
        LET same == DobCanonical(id_info.dob[1]) = DobCanonical(bank_info.dob[1])
        IN /\ Contains(matches, "dob") <=> same
           /\ Contains(mismatches, "dob") <=> ~same
    /\ \A d1 \in {DobSlash, DobDot, DobDash}, d2 \in {DobSlash, DobDot, DobDash} :
           compare_dob(Some(d1), Some(d2))
    /\ ~compare_dob(Some(DobUnpadded), Some(DobDash))

\* C4 witness: "1990/01/05" against "1990.01.05", compared and matched.
C4_Witness ==
    /\ Compared
    /\ id_info.dob = Some(DobSlash)
    /\ bank_info.dob = Some(DobDot)
    /\ matches = <<"dob">>

\* the similarity of two free-text values: the larger of the direct ratio
\* and the token-sort ratio of the trimmed, lowercased values
Similarity(a, b) ==
    LET s1 == Strip(Lower(a))
        s2 == Strip(Lower(b))
        direct == ratio(s1, s2)
        sorted == token_sort_ratio(s1, s2)
    IN IF direct >= sorted THEN direct ELSE sorted

\* C5: a free-text field (name, address) present on both sides is matched
\* exactly when its similarity is at least 80 and is mismatched otherwise: 80
\* matches, 79 does not.
C5_MatchedIffSimilarityAtLeast80 ==
    Compared =>
        \A f \in {"name", "address"} :
            BothCompared(f) =>
                LET sim == Similarity(id_info[f][1], bank_info[f][1])
                IN /\ Contains(matches, f) <=> sim >= 80
                   /\ Contains(mismatches, f) <=> sim < 80

\* C5 witness: a name whose similarity is exactly 80, compared and matched.
C5_Witness ==
    /\ Compared
    /\ BothCompared("name")
    /\ Similarity(id_info.name[1], bank_info.name[1]) = 80
    /\ matches = <<"name">>

\* the other side of the threshold: a similarity of 79, mismatched
C5_Similarity79Mismatched ==
    /\ Compared
    /\ BothCompared("address")
    /\ Similarity(id_info.address[1], bank_info.address[1]) = 79
    /\ mismatches = <<"address">>

\* a present phone value without a digit character
NoDigitPhone(v) ==
    /\ v # None
    /\ v[1] # <<>>
    /\ \A i \in 1..Len(v[1]) : v[1][i] \notin DigitChars

\* C7: when either record's phone is a non-empty string without digits, the
\* phone field is skipped: it is in neither matches nor mismatches.
C7_NoDigitPhoneIsSkipped ==
    (Compared /\ (NoDigitPhone(id_info.phone) \/ NoDigitPhone(bank_info.phone))) =>
        /\ ~Contains(matches, "phone")
        /\ ~Contains(mismatches, "phone")
        /\ "phone" \notin DOMAIN match_details

\* a value that is a whitespace-only string
WhitespaceOnly(v) ==
    /\ v # None
    /\ v[1] # <<>>
    /\ \A i \in 1..Len(v[1]) : v[1][i] \in WhitespaceChars

\* C8: a field whose value on either side is a whitespace-only string is
\* skipped: it is never matched or mismatched.
C8_WhitespaceOnlyIsSkipped ==
    Compared =>
        \A f \in FieldSet :
            (WhitespaceOnly(id_info[f]) \/ WhitespaceOnly(bank_info[f])) =>
                /\ ~Contains(matches, f)
                /\ ~Contains(mismatches, f)

\* the normalization of a field's value
Normalize(f, v) ==
    IF v = None THEN None
    ELSE IF f = "phone" THEN Some(PhoneCanonical(v[1]))
    ELSE IF f = "dob" THEN Some(DobCanonical(v[1]))
    ELSE Some(Strip(Lower(v[1])))

NormalizeRecord(r) ==
    [name |-> Normalize("name", r.name), phone |-> Normalize("phone", r.phone),
     dob |-> Normalize("dob", r.dob), address |-> Normalize("address", r.address)]

\* the idempotence half of C9: normalizing a normalized value changes nothing
C9_NormalizeIdempotent ==
    \A f \in FieldSet :
        /\ Normalize(f, Normalize(f, id_info[f])) = Normalize(f, id_info[f])
        /\ Normalize(f, Normalize(f, bank_info[f])) = Normalize(f, bank_info[f])

\* C9: normalization is idempotent for every field type, and comparing the
\* normalized values gives each field the verdict that comparing the raw
\* values gives it.
C9_NormalizedValuesSameVerdict ==
    /\ C9_NormalizeIdempotent
    /\ Compared =>
        LET n == compare_extracted_info(NormalizeRecord(id_info),
                                        NormalizeRecord(bank_info))
        IN /\ n.matches = matches
           /\ n.mismatches = mismatches

\* email compared as the specification describes it: trimmed, lowercased,
\* equal
EmailMatched ==
    /\ Truthy(id_info.email)
    /\ Truthy(bank_info.email)
    /\ Strip(Lower(id_info.email[1])) = Strip(Lower(bank_info.email[1]))

\* company compared as the specification describes it: free text, threshold 80
CompanyMatched ==
    /\ Truthy(id_info.company)
    /\ Truthy(bank_info.company)
    /\ Similarity(id_info.company[1], bank_info.company[1]) >= 80

\* the two decision policies a caller is to choose between
CountThreshold == "count_threshold"

StrongFieldOverride == "strong_field_override"

DecisionPolicies == {CountThreshold, StrongFieldOverride}

\* every field is skipped: nothing matched, nothing mismatched
AllSkipped == matches = <<>> /\ mismatches = <<>>

\* C10: the decision policy is a parameter of the comparison with two modes,
\* and under the strong-field-override mode the verdict is verified exactly
\* when email matched, or phone matched, or both name and company matched:
\* verified when only the emails match and every other field is skipped, not
\* verified when name matched, company mismatched and nothing else is
\* present. compare_extracted_info takes the two records and nothing else,
\* so the verdict a caller gets under either policy is is_verified.
C10_StrongFieldOverride ==
    Compared =>
        \A policy \in DecisionPolicies :
            policy = StrongFieldOverride =>
                /\ is_verified <=>
                      \/ EmailMatched
                      \/ Contains(matches, "phone")
                      \/ (Contains(matches, "name") /\ CompanyMatched)
                /\ (EmailMatched /\ AllSkipped) => is_verified
                /\ (matches = <<"name">> /\ mismatches = <<>>
                        /\ ~CompanyMatched) => ~is_verified

\* the case of C10 on which the code differs: the emails are equal and every
\* field the code compares is skipped; the verdict is not verified
C10_OnlyEmailMatchedNotVerified ==
    /\ Compared
    /\ EmailMatched
    /\ AllSkipped
    /\ ~is_verified

\* what the code does under either policy: email and company are in no
\* list, and the verdict is the count threshold over the matched fields
C10_CountThresholdWhateverThePolicy ==
    Compared =>
        \A policy \in DecisionPolicies :
            /\ \A f \in {"email", "company"} :
                /\ ~Contains(matches, f)
                /\ ~Contains(mismatches, f)
                /\ f \notin DOMAIN match_details
            /\ is_verified <=> Len(matches) >= 2

\* C11: when a verification run ends, whether it completed or raised at any
\* step, no file that the run wrote into the temp directory remains there.
C11_NoTempFileRemains == pc = "done" => temp_files = {}

\* a save of the run raised after it had created its file, which no bound
\* path names
OrphanOfFailedSave(f) ==
    /\ \E d \in Docs : run_error = "save_" \o d /\ f = TempPath(upload_name[d])
    /\ \A d \in Docs : path[d] # f

\* what does hold: a file remains only when a save raised after creating it
\* and left its path unbound, or when os.remove of it raised; a run in which
\* neither happened ends with no file left
C11_OnlyAFailedSaveOrRemoveLeavesAFile ==
    pc = "done" =>
        /\ \A f \in temp_files : OrphanOfFailedSave(f) \/ f \in remove_failed
        /\ (run_error \notin {"save_id", "save_bank"} /\ remove_failed = {})
               => temp_files = {}

\* a refused os.remove leaves a file although both saves returned and the
\* run completed
C11_RefusedRemoveLeavesFile ==
    /\ pc = "done"
    /\ run_error = "none"
    /\ \A d \in Docs : path[d] # Unbound
    /\ path["id"] \in temp_files
    /\ path["id"] \in remove_failed
    /\ path["bank"] \notin temp_files

\* two uploads of the same name, both saved: the first os.remove removes
\* the file, the second raises FileNotFoundError, and no file is left
C11_SameNameRunEndsClean ==
    /\ pc = "done"
    /\ upload_name["id"] = upload_name["bank"]
    /\ path["id"] = path["bank"]
    /\ path["id"] # Unbound
    /\ run_error = "none"
    /\ remove_failed = {path["bank"]}
    /\ temp_files = {}

====
